---- MODULE Spec2Model ----
(***************************************************************************)
(* Model of the razorpay-appwrite function: createOrder / verifyPayment.   *)
(*                                                                         *)
(* The repository holds several revisions of index.js side by side.  The   *)
(* variable `variant` fixes, for a whole behaviour, which revision is      *)
(* deployed:                                                               *)
(*   "idx1"  src/index.js:1-318        sync save, client totals            *)
(*   "idx3"  src/index.js:639-953      product linkage                     *)
(*   "p000a" src/unnamed/part_000:1-381  fire-and-forget save              *)
(*   "p001"  src/unnamed/part_001      client totals, orderId required     *)
(*   "p002"  src/unnamed/part_002      catalog prices, robust input        *)
(*                                                                         *)
(* The payment gateway, the document store and the product catalog are     *)
(* external services: each awaited call is one atomic step whose outcome   *)
(* (success, failure, a reply without an id) is chosen nondeterministically.*)
(***************************************************************************)
EXTENDS Integers, Sequences, FiniteSets, TLC

(* ------------------------------ bounds -------------------------------- *)
\* longest items list of a createOrder request
MaxItems == 2
\* store documents / gateway orders that may ever be created
MaxOrders == 1
\* last reading of the millisecond clock
MaxClock == 1

(* ------------------------- program constants -------------------------- *)
\* toPaise: amounts below 1e6 are taken to be rupees
RupeeLimit == 1000000
\* toPaise: paise per rupee
PaisePerRupee == 100

Variants == {"idx1", "idx3", "p000a", "p001", "p002"}
\* revisions whose createOrderAction reads the product catalog
CatalogVariants == {"idx3", "p002"}

(* --------------------------- JavaScript values ------------------------ *)
\* A numeric-position JS value: null/undefined, a number, NaN, or a
\* non-numeric string.  One record shape, so values compare with =.
Null == [t |-> "null", v |-> 0]
NaN == [t |-> "nan", v |-> 0]
Str == [t |-> "str", v |-> 0]
Num(n) == [t |-> "num", v |-> n]

\* a ?? b
Coalesce(a, b) == IF a.t = "null" THEN b ELSE a
\* Number(x)
ToNumber(x) ==
  CASE x.t = "num" -> x
    [] x.t = "null" -> Num(0)
    [] OTHER -> NaN
\* JS truthiness of a numeric-position value
Truthy(x) ==
  CASE x.t = "num" -> x.v # 0
    [] x.t = "str" -> TRUE
    [] OTHER -> FALSE
\* a || b
OrElse(a, b) == IF Truthy(a) THEN a ELSE b
\* a * b and a + b on numbers (NaN propagates)
Mul(a, b) == IF a.t = "num" /\ b.t = "num" THEN Num(a.v * b.v) ELSE NaN
Add(a, b) == IF a.t = "num" /\ b.t = "num" THEN Num(a.v + b.v) ELSE NaN
\* x <= 0 (false for NaN)
LeqZero(x) == x.t = "num" /\ x.v <= 0
\* Number.isNaN(Number(x))
IsNaNNumber(x) == ToNumber(x).t = "nan"

\* ids are strings; the empty string stands for null/undefined/"" (all falsy)
NoId == ""

(* ------------------------------ utilities ----------------------------- *)
\* toPaise of idx1, idx3, p000a, p002.  Every number of the model is whole,
\* so Math.abs(n - Math.round(n)) < 1e-9 holds and Math.round is the identity.
toPaise(amount) ==
  LET n == ToNumber(Coalesce(amount, Num(0)))
  IN  IF n.t = "nan" THEN Num(0)
      ELSE IF n.v > 0 /\ n.v < RupeeLimit THEN Num(n.v * PaisePerRupee)
      ELSE Num(n.v)

\* toPaise of p001: Math.round(Number(amountNumber) * 100)
toPaiseTimes100(amount) == Mul(ToNumber(amount), Num(PaisePerRupee))

\* crypto HMAC-SHA256 digest, hex: an injective function of key and message.
\* digest("hex") is lower case; `upper` marks the same digits in upper case.
Secret == "key_secret"
Hmac(key, msg) == [key |-> key, msg |-> msg, upper |-> FALSE]
generateSignature(orderId, paymentId, secret) ==
  Hmac(secret, orderId \o "|" \o paymentId)
NoSig == [key |-> "", msg |-> "", upper |-> FALSE]
UpperCase(sig) == [sig EXCEPT !.upper = TRUE]

\* String.prototype.toLowerCase on the action names requests carry
ToLower(a) ==
  CASE a = "createOrder" -> "createorder"
    [] a = "verifyPayment" -> "verifypayment"
    [] a = "VERIFYPAYMENT" -> "verifypayment"
    [] OTHER -> a

(* ------------------------------- state -------------------------------- *)
VARIABLES
  variant,   \* the deployed revision of index.js
  env,       \* process.env: the configuration keys that have a value
  catalog,   \* products collection: product id -> [exists, price]
  orders,    \* orders collection, in creation order (never deleted from)
  gwOrders,  \* orders opened at the payment gateway
  now,       \* Date.now(), in milliseconds; it advances where Tick is a step
  pending,   \* createDocument promises started and not awaited (p000a)
  pc,        \* per execution slot: where the running request stands
  body,      \* per slot: the request being (or last) handled
  loc,       \* per slot: local variables of the running action
  calls,     \* per slot: the external calls the request has made so far
  resp,      \* per slot: the response returned (meaningful when pc = "done")
  issued     \* the <<orderId, razorpayOrderId>> pairs successful createOrder
             \* responses have handed to clients

vars == <<variant, env, catalog, orders, gwOrders, now, pending, pc, body, loc, calls, resp, issued>>

\* execution slots: a slot runs one request at a time and is free again once
\* the result has been handed back
Slots == {1}
\* two slots, for a pair of requests set side by side
PairSlots == {1, 2}

CatalogIds == {"p1", "p2"}
Prices == {0, 500, 500000}
ProductDoc(exists, price) == [exists |-> exists, price |-> price]

\* a stored line item.  p002 stores {productId, quantity, unitPrice, lineTotal,
\* productSnapshot}; idx3 stores {productId, quantity, price, productSnapshot};
\* idx1 and p000a store the client's items as sent.
Line(productId, quantity, unitPrice, lineTotal, price, snapshot) ==
  [productId |-> productId, quantity |-> quantity, unitPrice |-> unitPrice,
   lineTotal |-> lineTotal, price |-> price, productSnapshot |-> snapshot]

\* a document that starts in a status of its own
OrderDocPending(userId, items, subtotal, totalAmount, razorpayOrderId) ==
  [userId |-> userId, items |-> items, subtotal |-> subtotal,
   totalAmount |-> totalAmount, paymentStatus |-> "pending",
   paymentReference |-> NoId, razorpayOrderId |-> razorpayOrderId,
   razorpayPaymentId |-> NoId, razorpaySignature |-> NoSig,
   currency |-> "INR", shippingAddress |-> "{}"]

\* the document createOrderAction hands to createDocument; the requests sent
\* here carry no currency and no shippingAddress, so the defaults are stored
OrderDoc(userId, items, subtotal, totalAmount, razorpayOrderId) ==
  [userId |-> userId, items |-> items, subtotal |-> subtotal,
   totalAmount |-> totalAmount, paymentStatus |-> "created",
   paymentReference |-> NoId, razorpayOrderId |-> razorpayOrderId,
   razorpayPaymentId |-> NoId, razorpaySignature |-> NoSig,
   currency |-> "INR", shippingAddress |-> "{}"]

\* a document as the store holds it: the fields above plus $id
Stored(doc, id) ==
  [id |-> id, userId |-> doc.userId, items |-> doc.items, subtotal |-> doc.subtotal,
   totalAmount |-> doc.totalAmount, paymentStatus |-> doc.paymentStatus,
   paymentReference |-> doc.paymentReference, razorpayOrderId |-> doc.razorpayOrderId,
   razorpayPaymentId |-> doc.razorpayPaymentId,
   razorpaySignature |-> doc.razorpaySignature,
   currency |-> doc.currency, shippingAddress |-> doc.shippingAddress]
NoOrder == Stored(OrderDoc(NoId, <<>>, Null, Null, NoId), NoId)

\* ID.unique(): a fresh document id
FreshDocId == "doc_" \o ToString(Len(orders) + 1)
\* the id the gateway gives its next order
FreshGatewayId == "order_" \o ToString(Len(gwOrders) + 1)

OrderIds == {orders[i].id : i \in 1..Len(orders)}
GatewayIds == {gwOrders[i].id : i \in 1..Len(gwOrders)}
OrderAt(id) == orders[CHOOSE i \in 1..Len(orders) : orders[i].id = id]

\* responses: {ok, error, orderId, razorpayOrderId, razorpayPaymentId, amount},
\* whether the failure carries raw: {razorpayOrderId, amount, currency}, and
\* whether the response carries razorpayKeyId
Response(ok, error, orderId, razorpayOrderId, razorpayPaymentId, amount, raw) ==
  [ok |-> ok, error |-> error, orderId |-> orderId, razorpayOrderId |-> razorpayOrderId,
   razorpayPaymentId |-> razorpayPaymentId, amount |-> amount, raw |-> raw,
   razorpayKeyId |-> FALSE]
\* the revisions whose createOrder response adds razorpayKeyId: env.RAZORPAY_KEY_ID
ReturnsKeyId(v) == v = "p001"
Failure(error) == Response(FALSE, error, NoId, NoId, NoId, Null, FALSE)
NoResp == Response(FALSE, "", NoId, NoId, NoId, Null, FALSE)

NoBody ==
  [action |-> "", userId |-> NoId, items |-> <<>>, subtotal |-> Null,
   totalAmount |-> Null, orderId |-> NoId, razorpayOrderId |-> NoId,
   razorpayPaymentId |-> NoId, razorpaySignature |-> NoSig]
NoLoc ==
  [idx |-> 0, enriched |-> <<>>, total |-> Num(0), amount |-> Null,
   rOrderId |-> NoId, docId |-> NoId]
\* the calls of one request: the catalog lookups with what each returned, how
\* often the gateway and each store operation were called, how many calls
\* threw because the service failed, and the target document before and after
\* updateDocument
NoCalls ==
  [lookups |-> <<>>, gateway |-> 0, creates |-> 0, lists |-> 0, updates |-> 0,
   threw |-> 0, pre |-> NoOrder, post |-> NoOrder]

\* the keys the function reads from process.env
EnvKeys ==
  {"RAZORPAY_KEY_ID", "RAZORPAY_KEY_SECRET", "APPWRITE_ENDPOINT", "APPWRITE_PROJECT",
   "APPWRITE_API_KEY", "APPWRITE_DATABASE_ID", "APPWRITE_ORDERS_COLLECTION_ID",
   "APPWRITE_PRODUCTS_COLLECTION_ID"}

InitFor(slots) ==
  /\ variant \in Variants
  /\ catalog = [p \in CatalogIds |-> ProductDoc(TRUE, Num(500))]
  /\ orders = <<>>
  /\ gwOrders = <<>>
  /\ now = 0
  /\ pending = <<>>
  /\ pc = [r \in slots |-> "idle"]
  /\ body = [r \in slots |-> NoBody]
  /\ loc = [r \in slots |-> NoLoc]
  /\ calls = [r \in slots |-> NoCalls]
  /\ resp = [r \in slots |-> NoResp]
  /\ issued = {}

\* a deployment whose configuration is complete
Init == InitFor(Slots) /\ env = EnvKeys

(* ---------------------------- entry point ------------------------------ *)
\* checkEnv: the required keys that have no value
checkEnv(v, e) ==
  (IF v \in CatalogVariants THEN EnvKeys
   ELSE EnvKeys \ {"APPWRITE_PRODUCTS_COLLECTION_ID"}) \ e

\* the response of the handler when checkEnv throws
EnvFailure(v) ==
  IF v = "p001" THEN Failure("Missing environment variables")
  ELSE Failure("Missing env vars: Missing env")

(* ------------------------------ routing ------------------------------- *)
\* handleAction: which action a request body is routed to
Route(v, b) ==
  IF v \in {"idx1", "p000a", "p001"}
  THEN LET act == ToLower(IF b.action # "" THEN b.action
                          ELSE IF b.razorpayPaymentId # NoId THEN "verifyPayment"
                          ELSE "createOrder")
       IN  CASE act = "createorder" -> "create"
             [] act = "verifypayment" -> "verify"
             [] OTHER -> IF b.razorpayPaymentId # NoId THEN "verify" ELSE "create"
  ELSE IF ToLower(b.action) = "verifypayment" THEN "verify" ELSE "create"

(* ------------------- createOrderAction: pure pieces ------------------- *)
\* where control goes after a synchronous stretch of an action
Goto(label, l) == [pc |-> label, loc |-> l, resp |-> NoResp]
Reply(r) == [pc |-> "done", loc |-> NoLoc, resp |-> r]

\* computeTotalFromItems (idx1, p000a): the client's own prices
RECURSIVE computeTotalFromItems(_)
computeTotalFromItems(items) ==
  IF items = <<>> THEN Num(0)
  ELSE LET it == Head(items)
           qty == OrElse(ToNumber(Coalesce(it.quantity, Num(0))), Num(0))
           price == OrElse(ToNumber(Coalesce(it.price, Num(0))), Num(0))
       IN  Add(Mul(qty, price), computeTotalFromItems(Tail(items)))

\* totalToUse of idx1 and p000a
ClientTotal(b) ==
  IF b.totalAmount.t # "null" /\ ~IsNaNNumber(b.totalAmount) THEN ToNumber(b.totalAmount)
  ELSE IF b.subtotal.t # "null" /\ ~IsNaNNumber(b.subtotal) THEN ToNumber(b.subtotal)
  ELSE OrElse(computeTotalFromItems(b.items), Num(0))

\* the checks between the total and the gateway call
TotalCheck(v, l) ==
  LET amount == toPaise(l.total)
      l2 == [l EXCEPT !.amount = amount, !.idx = 0]
  IN  CASE v = "idx3" ->
             IF LeqZero(l.total)
             THEN Reply(Failure("Invalid total computed from products"))
             ELSE Goto("gateway", l2)
        [] v = "p002" ->
             IF ~Truthy(l.total) \/ LeqZero(ToNumber(l.total))
             THEN Reply(Failure("Invalid total computed from products"))
             ELSE IF ~Truthy(amount) \/ LeqZero(amount)
             THEN Reply(Failure("Invalid amount after paise conversion"))
             ELSE Goto("gateway", l2)
        [] OTHER ->
             IF ~Truthy(l.total) \/ LeqZero(ToNumber(l.total))
             THEN Reply(Failure("Invalid amount: pass subtotal/totalAmount or include item.price fields"))
             ELSE IF ~Truthy(amount) \/ LeqZero(amount)
             THEN Reply(Failure("Invalid amount after conversion to paise"))
             ELSE Goto("gateway", l2)

\* the top of iteration k of the items loop, up to its getDocument call
RECURSIVE LoopTop(_, _, _, _)
LoopTop(v, items, k, l) ==
  IF k > Len(items) THEN TotalCheck(v, l)
  ELSE IF items[k].productId = NoId
  THEN IF v = "idx3" THEN LoopTop(v, items, k + 1, l)
       ELSE Reply(Failure("each item must include productId (or id/$id)"))
  ELSE Goto("fetch", [l EXCEPT !.idx = k])

\* subtotal and total of p001
Subtotal001(b) == ToNumber(Coalesce(b.subtotal, Num(0)))
Total001(b) == ToNumber(Coalesce(b.totalAmount, Subtotal001(b)))
\* amountPaise of p001: toPaise(total || subtotal || 0), sent unchecked
AmountPaise001(b) ==
  toPaiseTimes100(OrElse(OrElse(Total001(b), Subtotal001(b)), Num(0)))

\* createOrderAction from its entry to its first awaited call
CreateBegin(v, b) ==
  IF b.userId = NoId THEN Reply(Failure("userId required"))
  ELSE IF v \in CatalogVariants
  THEN IF Len(b.items) = 0 THEN Reply(Failure("items array required"))
       ELSE LoopTop(v, b.items, 1, NoLoc)
  ELSE IF v = "p001"
  THEN Goto("gateway", [NoLoc EXCEPT !.total = Total001(b), !.amount = AmountPaise001(b)])
  ELSE TotalCheck(v, [NoLoc EXCEPT !.total = ClientTotal(b)])

\* the quantity a line is priced with
LineQuantity(v, it) ==
  IF v = "p002" THEN OrElse(ToNumber(Coalesce(it.quantity, Num(1))), Num(1))
  ELSE ToNumber(Coalesce(it.quantity, Num(1)))

\* the unit price a line is priced with, doc being what getDocument gave
LinePrice(v, it, doc) ==
  LET fromDoc == IF doc.exists THEN Coalesce(doc.price, Num(0)) ELSE Num(0)
  IN  IF v = "p002" THEN ToNumber(fromDoc)
      ELSE ToNumber(Coalesce(it.price, fromDoc))

\* an iteration that calls getDocument again when it gave no product
AfterFetchRetry(v, b, l, doc) ==
  IF ~doc.exists THEN Goto("fetch", l)
  ELSE LoopTop(v, b.items, l.idx + 1,
               [l EXCEPT !.total = Add(@, Mul(ToNumber(Coalesce(doc.price, Num(0))),
                                              ToNumber(b.items[l.idx].quantity)))])

\* the rest of iteration l.idx once getDocument has returned doc
AfterFetch(v, b, l, doc) ==
  LET it == b.items[l.idx]
      qty == LineQuantity(v, it)
      price == LinePrice(v, it, doc)
      lineTotal == Mul(price, qty)
      snapshot == IF doc.exists THEN it.productId ELSE NoId
      line == IF v = "p002"
              THEN Line(it.productId, qty, price, lineTotal, Null, snapshot)
              ELSE Line(it.productId, qty, Null, Null, price, snapshot)
      l2 == [l EXCEPT !.enriched = Append(@, line), !.total = Add(@, lineTotal)]
  IN  IF v = "p002" /\ ~doc.exists
      THEN Reply(Failure("Product not found: " \o it.productId))
      ELSE LoopTop(v, b.items, l.idx + 1, l2)

\* the client's items as idx1 and p000a store them
RawLines(items) ==
  [i \in 1..Len(items) |->
     Line(items[i].productId, items[i].quantity, Null, Null, items[i].price, NoId)]

\* rawDocPayload
BuildDoc(v, b, l) ==
  IF v \in CatalogVariants
  THEN OrderDoc(b.userId, l.enriched, ToNumber(l.total), ToNumber(l.total), l.rOrderId)
  ELSE IF v = "p001"
  THEN OrderDoc(b.userId, RawLines(b.items), Subtotal001(b), ToNumber(l.total), l.rOrderId)
  ELSE OrderDoc(b.userId, RawLines(b.items), ToNumber(Coalesce(b.subtotal, l.total)),
                ToNumber(l.total), l.rOrderId)

\* does the revision refuse a gateway reply that carries no id?
ChecksGatewayId(v) == v \in {"idx1", "p000a"}
\* does the revision return before the store write has completed?
FireAndForget(v) == v = "p000a"

\* what follows the gateway call, rid being the id the reply carried (NoId: none)
AfterGateway(v, b, l, rid, clock) ==
  LET l2 == [l EXCEPT !.rOrderId = rid]
  IN  IF ChecksGatewayId(v) /\ rid = NoId
      THEN Reply(Failure("Razorpay did not return an order id"))
      ELSE IF FireAndForget(v)
      THEN Reply(Response(TRUE, "", "temp_" \o ToString(clock), rid, NoId, l.amount, FALSE))
      ELSE Goto("store", l2)

GatewayFailure(v) ==
  IF v \in {"idx1", "p000a", "p001"} THEN Failure("Razorpay order creation failed")
  ELSE Failure("Razorpay create failed")

\* the response after createDocument has returned or thrown
AfterStore(v, l, saved, id) ==
  IF saved THEN [Response(TRUE, "", id, l.rOrderId, NoId, l.amount, FALSE)
                   EXCEPT !.razorpayKeyId = ReturnsKeyId(v)]
  ELSE CASE v = "idx1" -> Response(FALSE, "Appwrite save order failed", NoId, l.rOrderId, NoId, l.amount, TRUE)
         [] v = "p002" -> Response(FALSE, "Appwrite save failed", NoId, l.rOrderId, NoId, l.amount, TRUE)
         [] v = "p001" -> Failure("Appwrite save order failed")
         [] OTHER -> Failure("Appwrite save failed")

(* ------------------ verifyPaymentAction: pure pieces ------------------ *)
\* revisions that need orderId; the others fall back to a lookup by razorpayOrderId
OrderIdRequired(v) == v \in {"p000a", "p001"}

MissingFieldsError(v) ==
  CASE v = "idx1" -> "Missing verification fields (razorpayPaymentId, razorpayOrderId, razorpaySignature required)"
    [] v = "idx3" -> "Missing required Razorpay fields for verification"
    [] v = "p002" -> "Missing razorpayPaymentId, razorpayOrderId or razorpaySignature"
    [] OTHER -> "Missing verification fields"

NotFoundError(v) ==
  IF v = "idx1"
  THEN "Order document not found for verification. Provide valid orderId or ensure DB contains razorpayOrderId."
  ELSE "Order not found for verification"

\* the catch block of the store calls, msg being err.message
StoreFailure(v, msg) ==
  IF v \in {"idx1", "p000a", "p001"} THEN Failure("Failed to update order: " \o msg)
  ELSE Failure(msg)

\* does the request carry the fields the revision demands?
FieldsPresent(v, b) ==
  /\ b.razorpayPaymentId # NoId
  /\ b.razorpayOrderId # NoId
  /\ b.razorpaySignature # NoSig
  /\ (OrderIdRequired(v) => b.orderId # NoId)

\* a comparison of the signatures that ignores the case of the hex digits
SignatureMatchesAnyCase(b) ==
  generateSignature(b.razorpayOrderId, b.razorpayPaymentId, Secret)
    = [b.razorpaySignature EXCEPT !.upper = FALSE]

\* a comparison that accepts the gateway's signature of the payment for any order
SignatureMatchesAnyOrder(b) ==
  \E g \in {"order_0"} \cup GatewayIds :
    generateSignature(g, b.razorpayPaymentId, Secret) = b.razorpaySignature

\* expected !== razorpaySignature is false
SignatureMatches(b) ==
  generateSignature(b.razorpayOrderId, b.razorpayPaymentId, Secret) = b.razorpaySignature

\* verifyPaymentAction without its comparison of the signature
VerifyBeginUnchecked(v, b) ==
  IF ~FieldsPresent(v, b) THEN Reply(Failure(MissingFieldsError(v)))
  ELSE IF b.orderId = NoId THEN Goto("list", NoLoc)
  ELSE Goto("update", [NoLoc EXCEPT !.docId = b.orderId])

\* verifyPaymentAction from its entry to its first awaited call
VerifyBegin(v, b) ==
  IF ~FieldsPresent(v, b) THEN Reply(Failure(MissingFieldsError(v)))
  ELSE IF ~SignatureMatches(b) THEN Reply(Failure("Invalid signature"))
  ELSE IF b.orderId = NoId THEN Goto("list", NoLoc)
  ELSE Goto("update", [NoLoc EXCEPT !.docId = b.orderId])

\* listDocuments([Query.equal("razorpayOrderId", id)]).documents
ListByGatewayId(id) ==
  SelectSeq(orders, LAMBDA o : o.razorpayOrderId = id)

\* a lookup that waits for the order to appear instead of failing
AfterListWait(v, found) ==
  IF Len(found) > 0 THEN Goto("update", [NoLoc EXCEPT !.docId = found[1].id])
  ELSE Goto("wait", NoLoc)

\* what follows listDocuments, found being its documents
AfterList(v, found) ==
  IF Len(found) > 0 THEN Goto("update", [NoLoc EXCEPT !.docId = found[1].id])
  ELSE Reply(Failure(NotFoundError(v)))

\* what follows a listDocuments that threw
AfterListError(v) ==
  IF v = "idx1" THEN Reply(Failure(NotFoundError(v)))
  ELSE Reply(StoreFailure(v, "store error"))

\* an update that flips paymentStatus instead of setting it
ApplyUpdateToggle(o, b) ==
  [o EXCEPT !.paymentStatus = IF @ = "paid" THEN "created" ELSE "paid",
            !.paymentReference = b.razorpayPaymentId,
            !.razorpayPaymentId = b.razorpayPaymentId,
            !.razorpaySignature = b.razorpaySignature]

\* an update that resolves the line items and the total anew
ApplyUpdateReresolved(o, b) ==
  [o EXCEPT !.paymentStatus = "paid",
            !.paymentReference = b.razorpayPaymentId,
            !.razorpayPaymentId = b.razorpayPaymentId,
            !.razorpaySignature = b.razorpaySignature,
            !.items = [i \in 1..Len(o.items) |->
                         [o.items[i] EXCEPT !.productSnapshot =
                            IF /\ o.items[i].productId \in CatalogIds
                               /\ catalog[o.items[i].productId].exists
                            THEN o.items[i].productId ELSE NoId]],
            !.totalAmount = IF \A p \in CatalogIds : catalog[p].exists THEN @ ELSE Num(0)]

\* an update that sets the status and leaves the payment fields for later
ApplyUpdateStatusOnly(o, b) ==
  [o EXCEPT !.paymentStatus = "paid"]

\* an update that also files the order under the request's razorpayOrderId
ApplyUpdateRebound(o, b) ==
  [o EXCEPT !.paymentStatus = "paid",
            !.paymentReference = b.razorpayPaymentId,
            !.razorpayPaymentId = b.razorpayPaymentId,
            !.razorpaySignature = b.razorpaySignature,
            !.razorpayOrderId = b.razorpayOrderId]

\* the update object of verifyPaymentAction applied to a stored document
ApplyUpdate(o, b) ==
  [o EXCEPT !.paymentStatus = "paid",
            !.paymentReference = b.razorpayPaymentId,
            !.razorpayPaymentId = b.razorpayPaymentId,
            !.razorpaySignature = b.razorpaySignature]

\* the success response of verifyPaymentAction
Verified(v, b, id) ==
  IF v \in {"idx1", "p000a", "p001"}
  THEN Response(TRUE, "", id, NoId, b.razorpayPaymentId, Null, FALSE)
  ELSE Response(TRUE, "", id, NoId, NoId, Null, FALSE)

\* what follows updateDocument: hit when it returned the updated document,
\* otherwise it threw (answered: because no document has that id)
AfterUpdate(v, b, id, answered, hit) ==
  IF hit THEN Reply(Verified(v, b, id))
  ELSE Reply(StoreFailure(v, IF answered
                             THEN "Document with the requested ID could not be found."
                             ELSE "store error"))

(* ------------------------------ requests ------------------------------ *)
Item(productId, quantity, price) ==
  [productId |-> productId, quantity |-> quantity, price |-> price]

\* the items clients send: well-formed ones, one carrying its own price, an
\* unknown product, quantities 0, negative and non-numeric, and no product id
ItemChoices ==
  { Item("p1", Num(2), Null), Item("p2", Num(1), Null), Item("p1", Num(2), Num(7)),
    Item("px", Num(1), Null), Item("p1", Num(0), Null), Item("p1", Num(-1), Null),
    Item("p1", Str, Null), Item(NoId, Num(1), Null) }

ItemLists == UNION {[1..k -> ItemChoices] : k \in 0..MaxItems}

CreateBody(userId, items, subtotal, totalAmount) ==
  [NoBody EXCEPT !.action = "createOrder", !.userId = userId, !.items = items,
                 !.subtotal = subtotal, !.totalAmount = totalAmount]

\* the monetary fields a client may add to the payload: <<subtotal, totalAmount>>
MoneyChoices == { <<Null, Null>>, <<Num(9), Null>>, <<Null, Num(7)>> }

\* every createOrder request over the item choices, and one without userId
RichCreateBodies ==
  { CreateBody("u1", its, m[1], m[2]) : its \in ItemLists, m \in MoneyChoices }
  \cup { CreateBody(NoId, <<Item("p1", Num(2), Null)>>, Null, Null) }

\* the createOrder requests of the whole-system specification: one that
\* every revision accepts, and one without userId
SysCreateBodies ==
  { CreateBody(u, <<Item("p1", Num(2), Null)>>, Null, Num(1000)) : u \in {"u1", NoId} }

PaymentIds == {"pay_1", "pay_2"}

VerifyBody(orderId, razorpayOrderId, razorpayPaymentId, razorpaySignature) ==
  [NoBody EXCEPT !.action = "verifyPayment", !.orderId = orderId,
                 !.razorpayOrderId = razorpayOrderId,
                 !.razorpayPaymentId = razorpayPaymentId,
                 !.razorpaySignature = razorpaySignature]

\* the signatures a client may send along with (rid, pid): the gateway's own
\* for that pair, the same digits in upper case, one made with a guessed key,
\* and the gateway's signature for another order id
SignatureChoices(rid, pid) ==
  { generateSignature(rid, pid, Secret),
    UpperCase(generateSignature(rid, pid, Secret)),
    generateSignature(rid, pid, "guess") }
  \cup { generateSignature(g, pid, Secret) : g \in {"order_0"} \cup GatewayIds }

\* the order ids a client may name: none, one that no document has, the ids
\* of the stored orders, and the orderIds createOrder responses have returned
OrderIdChoices ==
  {NoId, "doc_404"} \cup OrderIds \cup {i[1] : i \in issued}

\* requests that name a gateway order and a payment: for payment pay_1 with
\* every signature choice, for pay_2 with the gateway's signature
CompleteVerifyBodies ==
  UNION { { VerifyBody(oid, g, pid, sig) :
              oid \in OrderIdChoices,
              sig \in IF pid = "pay_1" THEN SignatureChoices(g, pid)
                      ELSE {generateSignature(g, pid, Secret)} } :
          <<g, pid>> \in GatewayIds \X PaymentIds }

\* requests that lack razorpayOrderId, razorpayPaymentId or razorpaySignature
IncompleteVerifyBodies ==
  UNION { { VerifyBody(oid, NoId, "pay_1", generateSignature(NoId, "pay_1", Secret)),
            VerifyBody(oid, g, NoId, generateSignature(g, NoId, Secret)),
            VerifyBody(oid, g, "pay_1", NoSig) } :
          <<oid, g>> \in ({NoId} \cup OrderIds) \X ({"order_0"} \cup GatewayIds) }

\* the verifyPayment requests a client can send in the current state
VerifyBodies == CompleteVerifyBodies \cup IncompleteVerifyBodies

(* ------------------------------ actions ------------------------------- *)
\* requests between their first awaited call and their response
Creating == Cardinality({r \in DOMAIN pc : pc[r] \in {"fetch", "gateway", "store"}})

\* room for one more createOrder under the bounds
Room(cap) ==
  /\ Len(orders) + Len(pending) + Creating < cap
  /\ Len(gwOrders) + Creating < cap

\* a slot takes the outcome of a synchronous stretch; a successful
\* createOrder response hands its ids to the client
Step(r, out) ==
  /\ pc' = [pc EXCEPT ![r] = out.pc]
  /\ loc' = [loc EXCEPT ![r] = out.loc]
  /\ resp' = [resp EXCEPT ![r] = out.resp]

Hand(r, out) ==
  issued' = IF out.pc = "done" /\ out.resp.ok
            THEN issued \cup {<<out.resp.orderId, out.resp.razorpayOrderId>>}
            ELSE issued

\* the exported handler: checkEnv, then the action up to its first await
runHandler(v, e, begun) ==
  IF checkEnv(v, e) # {} THEN Reply(EnvFailure(v)) ELSE begun

\* handleAction routes body b to createOrderAction, which runs to its first await
CreateStart(r, b, cap) ==
  /\ pc[r] = "idle"
  /\ Route(variant, b) = "create"
  /\ Room(cap) \/ CreateBegin(variant, b).pc = "done"
  /\ body' = [body EXCEPT ![r] = b]
  /\ calls' = [calls EXCEPT ![r] = NoCalls]
  /\ Step(r, runHandler(variant, env, CreateBegin(variant, b)))
  /\ UNCHANGED <<variant, env, catalog, orders, gwOrders, now, pending, issued>>

\* databases.getDocument of the products collection returns or throws
CreateFetch(r) ==
  /\ pc[r] = "fetch"
  /\ \E answered \in BOOLEAN :
       LET pid == body[r].items[loc[r].idx].productId
           doc == IF answered /\ pid \in DOMAIN catalog /\ catalog[pid].exists
                  THEN catalog[pid] ELSE ProductDoc(FALSE, Null)
       IN  /\ calls' = [calls EXCEPT
                          ![r].lookups = Append(@, [productId |-> pid, exists |-> doc.exists,
                                                    price |-> doc.price]),
                          ![r].threw = IF answered THEN @ ELSE @ + 1]
           /\ Step(r, AfterFetch(variant, body[r], loc[r], doc))
  /\ UNCHANGED <<variant, env, catalog, orders, gwOrders, now, pending, body, issued>>

\* razorpay.orders.create returns an order, a reply without id, or throws
CreateGateway(r) ==
  /\ pc[r] = "gateway"
  /\ \E reply \in {"order", "noid", "error"} :
       LET rid == IF reply = "order" THEN FreshGatewayId ELSE NoId
           out == IF reply = "error" THEN Reply(GatewayFailure(variant))
                  ELSE AfterGateway(variant, body[r], loc[r], rid, now)
           doc == BuildDoc(variant, body[r], [loc[r] EXCEPT !.rOrderId = rid])
       IN  /\ calls' = [calls EXCEPT ![r].gateway = @ + 1,
                                     ![r].threw = IF reply = "error" THEN @ + 1 ELSE @]
           /\ gwOrders' = IF reply = "order"
                          THEN Append(gwOrders, [id |-> rid, amount |-> loc[r].amount,
                                                 receipt |-> "rcpt_" \o ToString(now)])
                          ELSE gwOrders
           /\ pending' = IF out.resp.ok THEN Append(pending, doc) ELSE pending
           /\ Step(r, out)
           /\ Hand(r, out)
  /\ UNCHANGED <<variant, env, catalog, orders, now, body>>

\* the awaited databases.createDocument returns or throws
CreateStore(r) ==
  /\ pc[r] = "store"
  /\ \E saved \in BOOLEAN :
       LET out == Reply(AfterStore(variant, loc[r], saved, FreshDocId))
       IN  /\ calls' = [calls EXCEPT ![r].creates = @ + 1,
                                     ![r].threw = IF saved THEN @ ELSE @ + 1]
           /\ orders' = IF saved
                        THEN Append(orders, Stored(BuildDoc(variant, body[r], loc[r]), FreshDocId))
                        ELSE orders
           /\ Step(r, out)
           /\ Hand(r, out)
  /\ UNCHANGED <<variant, env, catalog, gwOrders, now, pending, body>>

\* a createDocument that was not awaited (p000a) resolves or rejects
BackgroundStore ==
  \E i \in 1..Len(pending), saved \in BOOLEAN :
    /\ pending' = SubSeq(pending, 1, i - 1) \o SubSeq(pending, i + 1, Len(pending))
    /\ orders' = IF saved THEN Append(orders, Stored(pending[i], FreshDocId)) ELSE orders
    /\ UNCHANGED <<variant, env, catalog, gwOrders, now, pc, body, loc, calls, resp, issued>>

\* handleAction routes body b to verifyPaymentAction, which runs to its first await
VerifyStart(r, b) ==
  /\ pc[r] = "idle"
  /\ Route(variant, b) = "verify"
  /\ body' = [body EXCEPT ![r] = b]
  /\ calls' = [calls EXCEPT ![r] = NoCalls]
  /\ Step(r, runHandler(variant, env, VerifyBegin(variant, b)))
  /\ UNCHANGED <<variant, env, catalog, orders, gwOrders, now, pending, issued>>

\* databases.listDocuments by razorpayOrderId returns or throws
VerifyList(r) ==
  /\ pc[r] = "list"
  /\ \E answered \in BOOLEAN :
       /\ calls' = [calls EXCEPT ![r].lists = @ + 1,
                                 ![r].threw = IF answered THEN @ ELSE @ + 1]
       /\ Step(r, IF answered
                  THEN AfterList(variant, ListByGatewayId(body[r].razorpayOrderId))
                  ELSE AfterListError(variant))
  /\ UNCHANGED <<variant, env, catalog, orders, gwOrders, now, pending, body, issued>>

\* databases.updateDocument returns the updated document or throws: the
\* store failed, or it holds no document of that id
VerifyUpdate(r) ==
  /\ pc[r] = "update"
  /\ \E answered \in BOOLEAN :
       LET id == loc[r].docId
           hit == answered /\ id \in OrderIds
           old == IF id \in OrderIds THEN OrderAt(id) ELSE NoOrder
           new == ApplyUpdate(old, body[r])
       IN  /\ orders' = IF hit
                        THEN [i \in 1..Len(orders) |->
                                IF orders[i].id = id THEN new ELSE orders[i]]
                        ELSE orders
           /\ calls' = [calls EXCEPT ![r].updates = @ + 1,
                                     ![r].threw = IF answered THEN @ ELSE @ + 1,
                                     ![r].pre = old,
                                     ![r].post = IF hit THEN new ELSE old]
           /\ Step(r, AfterUpdate(variant, body[r], id, answered, hit))
  /\ UNCHANGED <<variant, env, catalog, gwOrders, now, pending, body, issued>>

\* runHandler hands the result to the caller and the execution ends
Respond(r) ==
  /\ pc[r] = "done"
  /\ pc' = [pc EXCEPT ![r] = "idle"]
  /\ body' = [body EXCEPT ![r] = NoBody]
  /\ loc' = [loc EXCEPT ![r] = NoLoc]
  /\ calls' = [calls EXCEPT ![r] = NoCalls]
  /\ resp' = [resp EXCEPT ![r] = NoResp]
  /\ UNCHANGED <<variant, env, catalog, orders, gwOrders, now, pending, issued>>

\* the millisecond clock advances
Tick ==
  /\ now < MaxClock
  /\ now' = now + 1
  /\ UNCHANGED <<variant, env, catalog, orders, gwOrders, pending, pc, body, loc, calls, resp, issued>>

\* someone else edits or removes a product of the catalog
CatalogChange(p, doc) ==
  /\ catalog[p] # doc
  /\ catalog' = [catalog EXCEPT ![p] = doc]
  /\ UNCHANGED <<variant, env, orders, gwOrders, now, pending, pc, body, loc, calls, resp, issued>>

(* --------------------------- specifications --------------------------- *)
CatalogDocs == {ProductDoc(TRUE, Num(x)) : x \in Prices} \cup {ProductDoc(FALSE, Null)}

\* the whole system: both actions, one request after another, a fixed catalog
Next ==
  \/ \E r \in Slots, b \in SysCreateBodies : CreateStart(r, b, MaxOrders)
  \/ \E r \in Slots : CreateFetch(r)
  \/ \E r \in Slots : CreateGateway(r)
  \/ \E r \in Slots : CreateStore(r)
  \/ BackgroundStore
  \/ \E r \in Slots, b \in VerifyBodies : VerifyStart(r, b)
  \/ \E r \in Slots : VerifyList(r)
  \/ \E r \in Slots : VerifyUpdate(r)
  \/ \E r \in Slots : Respond(r)

Spec == Init /\ [][Next]_vars

\* order creation alone: one request out of every request over the item
\* choices, while the catalog changes
NextCreate ==
  \/ \E r \in Slots, b \in RichCreateBodies : CreateStart(r, b, 1)
  \/ \E r \in Slots : CreateFetch(r)
  \/ \E r \in Slots : CreateGateway(r)
  \/ \E r \in Slots : CreateStore(r)
  \/ BackgroundStore
  \/ \E p \in CatalogIds, doc \in CatalogDocs : CatalogChange(p, doc)

SpecCreate == Init /\ [][NextCreate]_vars

\* the configurations a deployment may run with: complete, without the
\* products collection id, without the gateway secret
EnvChoices ==
  { EnvKeys, EnvKeys \ {"APPWRITE_PRODUCTS_COLLECTION_ID"}, EnvKeys \ {"RAZORPAY_KEY_SECRET"} }

\* the whole system under any of these configurations
SpecEnv == InitFor(Slots) /\ env \in EnvChoices /\ [][Next]_vars

\* the non-monetary content of a createOrder request
Low(b) ==
  [userId |-> b.userId,
   items |-> [i \in 1..Len(b.items) |-> <<b.items[i].productId, b.items[i].quantity>>]]

\* two createOrder requests set side by side: the second, sent once the first
\* has been answered, differs from it at most in its monetary fields; the
\* catalog does not change
NextPair ==
  \/ \E b \in RichCreateBodies : CreateStart(1, b, Cardinality(PairSlots))
  \/ \E b \in RichCreateBodies :
       /\ pc[1] = "done" /\ pc[2] = "idle" /\ Low(b) = Low(body[1])
       /\ CreateStart(2, b, Cardinality(PairSlots))
  \/ \E r \in PairSlots : CreateFetch(r)
  \/ \E r \in PairSlots : CreateGateway(r)
  \/ \E r \in PairSlots : CreateStore(r)
  \/ BackgroundStore

SpecPair == InitFor(PairSlots) /\ env = EnvKeys /\ [][NextPair]_vars

\* the whole system, with correctly signed verifyPayment requests, while the
\* product the orders are made of is edited or removed by others
NextCatalog ==
  \/ \E r \in Slots, b \in SysCreateBodies : CreateStart(r, b, MaxOrders)
  \/ \E r \in Slots : CreateFetch(r)
  \/ \E r \in Slots : CreateGateway(r)
  \/ \E r \in Slots : CreateStore(r)
  \/ BackgroundStore
  \/ \E r \in Slots, o \in OrderIds \cup {NoId}, g \in GatewayIds :
       VerifyStart(r, VerifyBody(o, g, "pay_1", generateSignature(g, "pay_1", Secret)))
  \/ \E r \in Slots : VerifyList(r)
  \/ \E r \in Slots : VerifyUpdate(r)
  \/ \E r \in Slots : Respond(r)
  \/ \E doc \in CatalogDocs : CatalogChange("p1", doc)

SpecCatalog == Init /\ [][NextCatalog]_vars

\* two createOrder executions side by side while the clock runs
NextClock ==
  \/ \E r \in PairSlots, b \in SysCreateBodies : CreateStart(r, b, Cardinality(PairSlots))
  \/ \E r \in PairSlots : CreateFetch(r)
  \/ \E r \in PairSlots : CreateGateway(r)
  \/ \E r \in PairSlots : CreateStore(r)
  \/ BackgroundStore
  \/ \E r \in PairSlots : Respond(r)
  \/ Tick

SpecClock == InitFor(PairSlots) /\ env = EnvKeys /\ [][NextClock]_vars

\* two verifyPayment executions side by side: once a createOrder has been
\* answered, the same verifyPayment request may be running in both slots, and
\* their awaited calls interleave in every order
NextRace ==
  \/ \E b \in SysCreateBodies : pc[2] = "idle" /\ CreateStart(1, b, MaxOrders)
  \/ CreateFetch(1)
  \/ CreateGateway(1)
  \/ CreateStore(1)
  \/ BackgroundStore
  \/ \E r \in PairSlots, b \in VerifyBodies :
       /\ pc[r] = "idle"
       /\ \A q \in PairSlots \ {r} : pc[q] = "idle" \/ body[q] = b
       /\ VerifyStart(r, b)
  \/ \E r \in PairSlots : VerifyList(r)
  \/ \E r \in PairSlots : VerifyUpdate(r)
  \/ \E r \in PairSlots : Respond(r)

SpecRace == InitFor(PairSlots) /\ env = EnvKeys /\ [][NextRace]_vars

\* several orders side by side: createOrder requests up to one order more
\* than the whole-system specification holds, and correctly signed
\* verifyPayment requests that pair any stored order with any gateway order
NextCross ==
  \/ \E r \in Slots, b \in SysCreateBodies : CreateStart(r, b, MaxOrders + 1)
  \/ \E r \in Slots : CreateFetch(r)
  \/ \E r \in Slots : CreateGateway(r)
  \/ \E r \in Slots : CreateStore(r)
  \/ BackgroundStore
  \/ \E r \in Slots, o \in OrderIds \cup {NoId}, g \in GatewayIds, p \in PaymentIds :
       VerifyStart(r, VerifyBody(o, g, p, generateSignature(g, p, Secret)))
  \/ \E r \in Slots : VerifyList(r)
  \/ \E r \in Slots : VerifyUpdate(r)
  \/ \E r \in Slots : Respond(r)

SpecCross == Init /\ [][NextCross]_vars

\* the conversion of a computed total into the amount sent to the gateway,
\* on its own: two positive totals, each converted once
Totals ==
  { 1, 2, 999, RupeeLimit \div 2, RupeeLimit - 1, RupeeLimit, RupeeLimit + 1,
    2 * RupeeLimit }

\* amountPaise = toPaise(total)
AmountSent(v, total) ==
  IF v = "p001" THEN toPaiseTimes100(total) ELSE toPaise(total)

InitPaise ==
  /\ variant \in Variants
  /\ env = EnvKeys
  /\ catalog = [p \in CatalogIds |-> ProductDoc(TRUE, Num(500))]
  /\ orders = <<>>
  /\ gwOrders = <<>>
  /\ now = 0
  /\ pending = <<>>
  /\ pc = [r \in PairSlots |-> "total"]
  /\ body = [r \in PairSlots |-> NoBody]
  /\ \E a, b \in Totals :
       loc = [r \in PairSlots |-> [NoLoc EXCEPT !.total = Num(IF r = 1 THEN a ELSE b)]]
  /\ calls = [r \in PairSlots |-> NoCalls]
  /\ resp = [r \in PairSlots |-> NoResp]
  /\ issued = {}

Convert(r) ==
  /\ pc[r] = "total"
  /\ loc' = [loc EXCEPT ![r].amount = AmountSent(variant, loc[r].total)]
  /\ pc' = [pc EXCEPT ![r] = "amount"]
  /\ UNCHANGED <<variant, env, catalog, orders, gwOrders, now, pending, body, calls,
                 resp, issued>>

NextPaise == \E r \in PairSlots : Convert(r)

SpecPaise == InitPaise /\ [][NextPaise]_vars

\* the action names a request may carry: the two documented ones, one in
\* upper case, and none
ActionChoices == {"createOrder", "verifyPayment", "VERIFYPAYMENT", ""}

\* requests under every action name: a createOrder payload, a correctly
\* signed verifyPayment payload, and a payload that carries the fields of both
RouteBodies ==
  LET create == CreateBody("u1", <<Item("p1", Num(2), Null)>>, Null, Num(1000))
      verify(o, g) == VerifyBody(o, g, "pay_1", generateSignature(g, "pay_1", Secret))
      both(o, g) == [create EXCEPT !.orderId = o, !.razorpayOrderId = g,
                                   !.razorpayPaymentId = "pay_1",
                                   !.razorpaySignature = generateSignature(g, "pay_1", Secret)]
      payloads == {create}
                  \cup {verify(o, g) : o \in OrderIds \cup {NoId}, g \in GatewayIds}
                  \cup {both(o, g) : o \in OrderIds \cup {NoId}, g \in GatewayIds \cup {"order_0"}}
  IN  {[p EXCEPT !.action = a] : p \in payloads, a \in ActionChoices}

\* the whole system under these requests; handleAction picks the action
NextRoute ==
  \/ \E r \in Slots, b \in RouteBodies : CreateStart(r, b, MaxOrders)
  \/ \E r \in Slots : CreateFetch(r)
  \/ \E r \in Slots : CreateGateway(r)
  \/ \E r \in Slots : CreateStore(r)
  \/ BackgroundStore
  \/ \E r \in Slots, b \in RouteBodies : VerifyStart(r, b)
  \/ \E r \in Slots : VerifyList(r)
  \/ \E r \in Slots : VerifyUpdate(r)
  \/ \E r \in Slots : Respond(r)

SpecRoute == Init /\ [][NextRoute]_vars

\* the response objects a runtime may hand to the handler: "json" offers
\* json(body, status) alone, "express" offers status(code).json(body) as
\* well as json(body, status)
ResKinds == {"json", "express"}

\* the HTTP status runHandler sends through a response object of kind k, given
\* whether checkEnv passed and the result of the action; 0: nothing is sent.
\* part_002 and idx3 call res.json(out, status) whenever res.json exists;
\* idx1 and p000a do so for the result, but answer a checkEnv failure only
\* through res.status; p001 always calls res.status(code).json(body), which
\* throws a TypeError on an object without status
SentStatus(v, k, envOk, result) ==
  IF ~envOk
  THEN IF v \in {"idx3", "p002"} \/ k = "express" THEN 500 ELSE 0
  ELSE IF v = "p001" /\ k = "json" THEN 0
  ELSE IF result.ok THEN 200 ELSE 400

\* createOrder requests with every list of up to MaxItems items out of a
\* product of the catalog and an unknown one
LiveCreateBodies ==
  { CreateBody("u1", items, Null, Num(1000)) :
      items \in UNION {[1..k -> {Item("p1", Num(2), Null), Item("px", Num(1), Null)}] :
                         k \in 0..MaxItems} }

\* the whole system under these requests and correctly signed verifications,
\* with room for one order
NextLive ==
  \/ \E r \in Slots, b \in LiveCreateBodies : CreateStart(r, b, 1)
  \/ \E r \in Slots : CreateFetch(r)
  \/ \E r \in Slots : CreateGateway(r)
  \/ \E r \in Slots : CreateStore(r)
  \/ BackgroundStore
  \/ \E r \in Slots, o \in OrderIds \cup {NoId}, g \in GatewayIds \cup {"order_0"} :
       VerifyStart(r, VerifyBody(o, g, "pay_1", generateSignature(g, "pay_1", Secret)))
  \/ \E r \in Slots : VerifyList(r)
  \/ \E r \in Slots : VerifyUpdate(r)
  \/ \E r \in Slots : Respond(r)

\* every awaited call of the catalog, the gateway and the store eventually
\* returns or throws
CallsReturn ==
  \A r \in Slots :
    /\ WF_vars(CreateFetch(r))
    /\ WF_vars(CreateGateway(r))
    /\ WF_vars(CreateStore(r))
    /\ WF_vars(VerifyList(r))
    /\ WF_vars(VerifyUpdate(r))

SpecLive == Init /\ [][NextLive]_vars /\ CallsReturn

(* ----------------------------- properties ------------------------------ *)
\* createOrder requests that have been answered with ok: true
CreatedOk(r) ==
  pc[r] = "done" /\ Route(variant, body[r]) = "create" /\ resp[r].ok

\* verifyPayment requests that carried the fields the revision demands
VerifyAsked(r) ==
  Route(variant, body[r]) = "verify" /\ FieldsPresent(variant, body[r])

\* the sum over the request's items of quantity times the price getDocument
\* returned for the item (lookups holds them in item order; an item without a
\* product id is never looked up, a product that was not found has no price)
RECURSIVE CatalogSum(_, _)
CatalogSum(items, lookups) ==
  IF items = <<>> \/ lookups = <<>> THEN Num(0)
  ELSE IF Head(items).productId = NoId THEN CatalogSum(Tail(items), lookups)
  ELSE Add(Mul(ToNumber(Head(items).quantity),
               ToNumber(Coalesce(Head(lookups).price, Num(0)))),
           CatalogSum(Tail(items), Tail(lookups)))

\* unit price and line total of a stored line (idx3 names the unit price
\* `price` and stores no line total of its own)
UnitPriceOf(line) == Coalesce(line.unitPrice, line.price)
LineTotalOf(line) == Coalesce(line.lineTotal, Mul(UnitPriceOf(line), line.quantity))

RECURSIVE LineSum(_)
LineSum(lines) ==
  IF lines = <<>> THEN Num(0)
  ELSE Add(LineTotalOf(Head(lines)), LineSum(Tail(lines)))

\* C1: every createOrder request that succeeds leaves an order whose
\* totalAmount is the sum, over the request's items, of the quantity times the
\* catalog unit price read for the item during the request, and is the sum of
\* lineTotal over the stored line items, each lineTotal being unitPrice times
\* quantity -- also when the catalog is changed while the request runs.
\* (Stated for the requests all of whose catalog lookups returned a product.)
C1_StoredTotalIsCatalogSum ==
  \A r \in DOMAIN pc :
    (/\ variant \in CatalogVariants
     /\ CreatedOk(r)
     /\ resp[r].orderId \in OrderIds
     /\ \A k \in 1..Len(calls[r].lookups) : calls[r].lookups[k].exists)
    => LET o == OrderAt(resp[r].orderId)
       IN  /\ o.totalAmount = CatalogSum(body[r].items, calls[r].lookups)
           /\ o.totalAmount = LineSum(o.items)
           /\ \A i \in 1..Len(o.items) :
                LineTotalOf(o.items[i]) = Mul(UnitPriceOf(o.items[i]), o.items[i].quantity)

\* a quantity that is not a positive number
BadQuantity(q) == ~(q.t = "num" /\ q.v > 0)

\* the amount of the gateway order a response names
GatewayAmount(rid) ==
  gwOrders[CHOOSE i \in 1..Len(gwOrders) : gwOrders[i].id = rid].amount

\* C2: the price, subtotal and totalAmount a client sends have no effect: two
\* createOrder requests that agree on userId, product ids and quantities, and
\* are given the same catalog answers, store the same totalAmount and the same
\* line items and send the same amount to the gateway.
C2_ClientMoneyHasNoEffect ==
  (/\ DOMAIN pc = PairSlots
   /\ CreatedOk(1) /\ CreatedOk(2)
   /\ body[1].items # <<>>
   /\ \A i \in 1..Len(body[1].items) :
        /\ body[1].items[i].productId \in CatalogIds
        /\ ~BadQuantity(body[1].items[i].quantity)
   /\ Low(body[1]) = Low(body[2])
   /\ calls[1].lookups = calls[2].lookups
   /\ {resp[1].orderId, resp[2].orderId} \subseteq OrderIds
   /\ {resp[1].razorpayOrderId, resp[2].razorpayOrderId} \subseteq GatewayIds)
  => /\ OrderAt(resp[1].orderId).totalAmount = OrderAt(resp[2].orderId).totalAmount
     /\ OrderAt(resp[1].orderId).items = OrderAt(resp[2].orderId).items
     /\ GatewayAmount(resp[1].razorpayOrderId) = GatewayAmount(resp[2].razorpayOrderId)

\* the signature the gateway makes for the ids of request b
GatewaySignature(b) ==
  Hmac(Secret, b.razorpayOrderId \o "|" \o b.razorpayPaymentId)

\* slot r holds a verifyPayment request whose signature is not the gateway's
BadSignature(r) ==
  /\ pc[r] # "idle"
  /\ VerifyAsked(r)
  /\ body[r].razorpaySignature # GatewaySignature(body[r])

PassedSignatureCheck(r) ==
  \/ pc[r] \in {"list", "update"}
  \/ pc[r] = "done" /\ resp[r].error # "Invalid signature"

\* C4: the expected signature is a function of the pair (razorpayOrderId,
\* razorpayPaymentId) and the secret alone -- the HMAC-SHA256, in hex, of
\* razorpayOrderId + "|" + razorpayPaymentId -- and a verifyPayment request
\* passes the signature check if and only if the signature it carries is
\* exactly that value, case included; no other signature is accepted.
C4_SignatureCheckExact ==
  \A r \in DOMAIN pc :
    (pc[r] # "idle" /\ VerifyAsked(r))
    => /\ generateSignature(body[r].razorpayOrderId, body[r].razorpayPaymentId, Secret)
            = GatewaySignature(body[r])
       /\ PassedSignatureCheck(r) <=> body[r].razorpaySignature = GatewaySignature(body[r])

\* C4 witness: a request carrying exactly the gateway's signature has been
\* accepted and its order marked paid
C4_Witness ==
  \E r \in DOMAIN pc :
    /\ pc[r] = "done" /\ VerifyAsked(r) /\ resp[r].ok
    /\ body[r].razorpaySignature = GatewaySignature(body[r])
    /\ resp[r].orderId \in OrderIds
    /\ OrderAt(resp[r].orderId).razorpaySignature = GatewaySignature(body[r])

\* createOrder requests that reach the items loop of a revision that reads
\* the catalog
CatalogCreate(r) ==
  /\ variant \in CatalogVariants
  /\ pc[r] # "idle"
  /\ Route(variant, body[r]) = "create"
  /\ body[r].userId # NoId

\* nothing has been asked of the gateway or written to the store for slot r
NothingCreated(r) ==
  /\ pc[r] \notin {"gateway", "store"}
  /\ calls[r].gateway = 0 /\ calls[r].creates = 0
  /\ orders = <<>> /\ pending = <<>> /\ gwOrders = <<>>

\* C5: a createOrder request whose items hold, at any position, a productId
\* the catalog does not have fails, with an error naming that id when the
\* lookup of that product is what ends the request, and makes no gateway
\* order and no store write.
C5_UnknownProductFails ==
  \A r \in DOMAIN pc :
    (/\ CatalogCreate(r)
     /\ \E i \in 1..Len(body[r].items) :
          body[r].items[i].productId \notin CatalogIds \cup {NoId})
    => /\ NothingCreated(r)
       /\ pc[r] = "done" =>
            /\ ~resp[r].ok
            /\ \A k \in 1..Len(calls[r].lookups) :
                 (k = Len(calls[r].lookups) /\ calls[r].lookups[k].productId \notin CatalogIds)
                 => resp[r].error = "Product not found: " \o calls[r].lookups[k].productId

\* position of the first item with such a quantity
FirstBadQuantity(items) ==
  CHOOSE i \in 1..Len(items) :
    /\ BadQuantity(items[i].quantity)
    /\ \A j \in 1..(i - 1) : ~BadQuantity(items[j].quantity)

\* C6: a createOrder request in which some item has a quantity that is zero,
\* negative or not a number fails, without a catalog lookup for that item,
\* without a gateway call and without a store write; no default stands in for
\* the quantity.
C6_BadQuantityFails ==
  \A r \in DOMAIN pc :
    (/\ CatalogCreate(r)
     /\ \E i \in 1..Len(body[r].items) : BadQuantity(body[r].items[i].quantity))
    => /\ NothingCreated(r)
       /\ Len(calls[r].lookups) < FirstBadQuantity(body[r].items)
       /\ pc[r] = "done" => ~resp[r].ok

\* slot r has answered a verifyPayment request with the gateway's signature
\* whose update met an order that the same payment had already paid, no call
\* to the store having failed
Reverified(r) ==
  /\ pc[r] = "done"
  /\ VerifyAsked(r)
  /\ body[r].razorpaySignature = GatewaySignature(body[r])
  /\ calls[r].updates = 1 /\ calls[r].threw = 0
  /\ calls[r].pre.id # NoId
  /\ calls[r].pre.paymentStatus = "paid"
  /\ calls[r].pre.razorpayPaymentId = body[r].razorpayPaymentId
  /\ calls[r].pre.razorpaySignature = body[r].razorpaySignature

\* C7: verifying again, with the same correct signature, an order that this
\* payment has already paid succeeds again, and the order's razorpayPaymentId,
\* razorpaySignature and paymentStatus are after the second call what they
\* were after the first.
C7_ReverifyIsNoOp ==
  \A r \in DOMAIN pc :
    Reverified(r)
    => /\ resp[r].ok
       /\ resp[r].orderId = calls[r].pre.id
       /\ calls[r].post.paymentStatus = calls[r].pre.paymentStatus
       /\ calls[r].post.razorpayPaymentId = calls[r].pre.razorpayPaymentId
       /\ calls[r].post.razorpaySignature = calls[r].pre.razorpaySignature
       /\ OrderAt(calls[r].pre.id) = calls[r].pre

\* C7 witness: a second verification of a paid order has been answered
C7_Witness ==
  \E r \in DOMAIN pc :
    /\ Reverified(r)
    /\ resp[r].ok
    /\ OrderAt(calls[r].pre.id).paymentStatus = "paid"

\* C8: createDocument is called only after razorpay.orders.create has returned
\* an order in the same request; a request whose gateway call failed writes no
\* order; and every stored order carries a razorpayOrderId that is the id of
\* an order the gateway really created.
C8_StoreOnlyAfterGateway ==
  /\ \A i \in 1..Len(orders) :
       orders[i].razorpayOrderId # NoId /\ orders[i].razorpayOrderId \in GatewayIds
  /\ \A r \in DOMAIN pc :
       /\ (pc[r] = "store" \/ calls[r].creates > 0) => calls[r].gateway = 1
       /\ (pc[r] = "done" /\ resp[r] = GatewayFailure(variant)) => calls[r].creates = 0

\* C9: when createOrder answers ok: true the store already holds an order
\* whose id is the returned orderId, whose razorpayOrderId is the returned
\* one, and whose paymentStatus is "created".
C9_StoredBeforeResponse ==
  \A r \in DOMAIN pc :
    CreatedOk(r)
    => /\ resp[r].orderId \in OrderIds
       /\ OrderAt(resp[r].orderId).razorpayOrderId = resp[r].razorpayOrderId
       /\ OrderAt(resp[r].orderId).paymentStatus = "created"

\* C10: a verifyPayment request carrying the orderId and razorpayOrderId that
\* a successful createOrder returned, a payment id and the gateway's signature
\* for them succeeds (the store not failing) and marks paid exactly the order
\* that createOrder created.
C10_RoundTrip ==
  \A r \in DOMAIN pc :
    (/\ pc[r] = "done"
     /\ Route(variant, body[r]) = "verify"
     /\ <<body[r].orderId, body[r].razorpayOrderId>> \in issued
     /\ body[r].razorpayPaymentId # NoId
     /\ body[r].razorpaySignature = GatewaySignature(body[r])
     /\ calls[r].threw = 0)
    => /\ resp[r].ok
       /\ body[r].orderId \in OrderIds
       /\ calls[r].post.id = body[r].orderId
       /\ OrderAt(body[r].orderId).razorpayOrderId = body[r].razorpayOrderId
       /\ OrderAt(body[r].orderId).paymentStatus = "paid"

\* C11: every order's paymentStatus is "created" or "paid"; an order enters
\* the store as "created"; and an order that is "paid" stays "paid" through
\* every later step of any createOrder or verifyPayment request.
C11_StatusOnlyAdvances ==
  [][/\ \A i \in 1..Len(orders') : orders'[i].paymentStatus \in {"created", "paid"}
     /\ \A i \in (Len(orders) + 1)..Len(orders') : orders'[i].paymentStatus = "created"
     /\ \A i \in 1..Len(orders) :
          /\ orders'[i].id = orders[i].id
          /\ orders[i].paymentStatus = "paid" => orders'[i].paymentStatus = "paid"]_vars

\* C11 witness: an order that was already paid has been the target of the
\* update of a later verifyPayment request, for another payment, and is paid
C11_Witness ==
  \E r \in DOMAIN pc :
    /\ pc[r] = "done" /\ resp[r].ok
    /\ calls[r].updates = 1
    /\ calls[r].pre.paymentStatus = "paid"
    /\ calls[r].pre.razorpayPaymentId # body[r].razorpayPaymentId
    /\ OrderAt(calls[r].pre.id).paymentStatus = "paid"

\* C12: an order's razorpayPaymentId and razorpaySignature are null when the
\* order is created and stay null until a verifyPayment request for that order
\* succeeds; once they have a value, no later step of any request changes it.
C12_PaymentFieldsSetOnce ==
  [][/\ \A i \in (Len(orders) + 1)..Len(orders') :
          orders'[i].razorpayPaymentId = NoId /\ orders'[i].razorpaySignature = NoSig
     /\ \A i \in 1..Len(orders) :
          /\ (orders[i].razorpayPaymentId = NoId /\ orders'[i] # orders[i])
               => \E r \in DOMAIN pc :
                    /\ Route(variant, body[r]) = "verify"
                    /\ pc'[r] = "done" /\ resp'[r].ok /\ resp'[r].orderId = orders[i].id
          /\ orders[i].razorpayPaymentId # NoId
               => /\ orders'[i].razorpayPaymentId = orders[i].razorpayPaymentId
                  /\ orders'[i].razorpaySignature = orders[i].razorpaySignature]_vars

\* the gateway order opened last
LastGatewayOrder == gwOrders[Len(gwOrders)]

\* C13: when razorpay.orders.create has returned an order and createDocument
\* then fails, createOrder answers ok: false with the razorpayOrderId of that
\* gateway order and the amount it was opened for, in every revision that
\* awaits the store write.
C13_StoreFailureNamesGatewayOrder ==
  \A r \in DOMAIN pc :
    (/\ pc[r] = "done"
     /\ Route(variant, body[r]) = "create"
     /\ calls[r].gateway = 1 /\ calls[r].creates = 1
     /\ ~resp[r].ok
     /\ gwOrders # <<>>)
    => /\ resp[r].raw
       /\ resp[r].razorpayOrderId = LastGatewayOrder.id
       /\ resp[r].amount = LastGatewayOrder.amount

\* slot r has answered a verifyPayment request that names a gateway order and
\* a payment and carries the gateway's signature for them, the store having
\* answered every call
ValidVerifyDone(r) ==
  /\ pc[r] = "done"
  /\ Route(variant, body[r]) = "verify"
  /\ checkEnv(variant, env) = {}
  /\ body[r].razorpayOrderId # NoId /\ body[r].razorpayPaymentId # NoId
  /\ body[r].razorpaySignature = GatewaySignature(body[r])
  /\ calls[r].threw = 0

\* the stored orders request b is aimed at
Targets(b) ==
  IF b.orderId # NoId THEN {i \in 1..Len(orders) : orders[i].id = b.orderId}
  ELSE {i \in 1..Len(orders) : orders[i].razorpayOrderId = b.razorpayOrderId}

\* the answers that say the order was not found: the function's own, and the
\* store's when updateDocument is given an id it does not hold
NotFoundAnswers ==
  { Failure(NotFoundError(variant)),
    StoreFailure(variant, "Document with the requested ID could not be found.") }

\* C14: a verifyPayment request with a valid signature whose target cannot be
\* resolved -- its orderId names no stored order, or it has no orderId and no
\* stored order has its razorpayOrderId -- is answered with an order-not-found
\* error and changes no order.
C14_UnresolvedIsNotFound ==
  \A r \in DOMAIN pc :
    (ValidVerifyDone(r) /\ Targets(body[r]) = {})
    => /\ resp[r] \in NotFoundAnswers
       /\ calls[r].post = calls[r].pre

\* C15: orderId is optional: a verifyPayment request without orderId that
\* carries razorpayOrderId, razorpayPaymentId and the gateway's signature
\* succeeds when an order with that razorpayOrderId is stored, and marks paid
\* that order and no other.
C15_OrderIdOptional ==
  \A r \in DOMAIN pc :
    (/\ ValidVerifyDone(r)
     /\ body[r].orderId = NoId
     /\ Targets(body[r]) # {})
    => /\ resp[r].ok
       /\ calls[r].updates = 1
       /\ calls[r].pre.razorpayOrderId = body[r].razorpayOrderId
       /\ calls[r].post.paymentStatus = "paid"
       /\ resp[r].orderId = calls[r].pre.id

\* C16: for every createOrder that succeeds, the amount razorpay.orders.create
\* was called with equals the totalAmount of the stored order, which is the
\* total computed from the catalog, and the order is stored with
\* paymentStatus "created": one item of quantity 2 at catalog price 500 gives
\* a gateway amount of 1000 and a stored totalAmount of 1000.
C16_GatewayAmountIsStoredTotal ==
  \A r \in DOMAIN pc :
    (/\ variant \in CatalogVariants
     /\ CreatedOk(r)
     /\ resp[r].orderId \in OrderIds
     /\ resp[r].razorpayOrderId \in GatewayIds
     /\ \A k \in 1..Len(calls[r].lookups) : calls[r].lookups[k].exists)
    => LET o == OrderAt(resp[r].orderId)
       IN  /\ o.paymentStatus = "created"
           /\ o.totalAmount = CatalogSum(body[r].items, calls[r].lookups)
           /\ GatewayAmount(resp[r].razorpayOrderId) = o.totalAmount
           /\ resp[r].amount = o.totalAmount

\* C17: the conversion to paise is applied once and in one way: whenever
\* razorpay.orders.create is about to be called for a positive total t, the
\* amount it is called with is t * 100, whatever the magnitude of t.
C17_AmountIsTotalTimes100 ==
  \A r \in DOMAIN pc :
    (/\ pc[r] = "gateway"
     /\ loc[r].total.t = "num" /\ loc[r].total.v > 0)
    => loc[r].amount = Num(loc[r].total.v * PaisePerRupee)

\* C18: razorpay.orders.create is never called with an amount that is zero,
\* negative or not a number: a createOrder whose total is not positive has
\* failed before the gateway call, so no request stands at the gateway call
\* with such a total or amount and no gateway order has such an amount.
C18_GatewayAmountPositive ==
  /\ \A i \in 1..Len(gwOrders) :
       gwOrders[i].amount.t = "num" /\ gwOrders[i].amount.v > 0
  /\ \A r \in DOMAIN pc :
       pc[r] = "gateway"
       => /\ loc[r].amount.t = "num" /\ loc[r].amount.v > 0
          /\ loc[r].total.t = "num" /\ loc[r].total.v > 0

\* C19: every failure of a request -- bad input, a call to the catalog, the
\* gateway or the store that threw, a gateway reply without an order id --
\* ends in a response {ok: false, error: <non-empty string>}.
C19_FailuresAreErrorResponses ==
  \A r \in DOMAIN pc :
    pc[r] = "done"
    => /\ calls[r].threw > 0 => (~resp[r].ok /\ resp[r].error # "")
       /\ ~resp[r].ok => resp[r].error # ""
       /\ CreatedOk(r) => resp[r].razorpayOrderId # NoId

\* C20: the configuration is validated before any action runs: when one of
\* the eight values (gateway key id and secret, store endpoint, project, API
\* key, database id, orders collection id, products collection id) is absent,
\* every request is answered with an error and makes no catalog lookup, no
\* gateway call and no store call.
C20_ConfigValidatedFirst ==
  \A r \in DOMAIN pc :
    (env # EnvKeys /\ pc[r] # "idle")
    => /\ pc[r] = "done"
       /\ ~resp[r].ok /\ resp[r].error # ""
       /\ calls[r] = NoCalls
       /\ orders = <<>> /\ gwOrders = <<>> /\ pending = <<>>

\* createOrder requests that lack userId, have no items, or hold an item
\* without a product id
Malformed(b) ==
  \/ b.userId = NoId
  \/ b.items = <<>>
  \/ \E i \in 1..Len(b.items) : b.items[i].productId = NoId

\* C21: a createOrder request with a missing or empty userId, with no items,
\* or with an item that has no product id fails with a validation error
\* without a gateway call and without a store write; the item is not skipped.
C21_MalformedCreateFails ==
  \A r \in DOMAIN pc :
    (/\ pc[r] # "idle"
     /\ Route(variant, body[r]) = "create"
     /\ Malformed(body[r]))
    => /\ NothingCreated(r)
       /\ pc[r] = "done" => ~resp[r].ok

C23_MutatedOnce ==
  [][\A i \in 1..Len(orders) :
       orders'[i] # orders[i]
       => /\ orders[i].paymentStatus = "created"
          /\ orders[i].razorpayPaymentId = NoId
          /\ orders'[i].paymentStatus = "paid"]_vars

\* C24: what an order stores of the catalog is never resolved again: every
\* step -- a change or removal of a catalog product, or a step of any later
\* request -- leaves the line items, subtotal and totalAmount of every stored
\* order as they were, and a verifyPayment request makes no catalog lookup.
C24_SnapshotKept ==
  [][/\ \A i \in 1..Len(orders) :
          /\ orders'[i].items = orders[i].items
          /\ orders'[i].subtotal = orders[i].subtotal
          /\ orders'[i].totalAmount = orders[i].totalAmount
     /\ \A r \in DOMAIN pc :
          Route(variant, body'[r]) = "verify" => calls'[r].lookups = <<>>]_vars

\* C24 witness: an order priced from the catalog was stored with a snapshot
\* of product p1, p1 has since been removed from the catalog, and the order
\* has then been paid; its line and total are those of its creation
C24_Witness ==
  \E i \in 1..Len(orders) :
    /\ variant \in CatalogVariants
    /\ orders[i].paymentStatus = "paid"
    /\ orders[i].items # <<>>
    /\ orders[i].items[1].productSnapshot = "p1"
    /\ ~catalog["p1"].exists
    /\ orders[i].totalAmount = Num(1000)

\* C25: the receipt handed to razorpay.orders.create is unique per attempt:
\* any two gateway orders, also of attempts that run side by side or within
\* one clock reading, were opened with different receipt strings.
C25_ReceiptsUnique ==
  \A i, j \in 1..Len(gwOrders) :
    i # j => gwOrders[i].receipt # gwOrders[j].receipt

\* C26: nothing is tried twice within a request: a createOrder makes at most
\* one catalog lookup per line item, at most one razorpay.orders.create call
\* and at most one createDocument call, and a verifyPayment makes at most one
\* listDocuments and one updateDocument call -- also when a call has failed.
C26_NoRetry ==
  \A r \in DOMAIN pc :
    /\ Len(calls[r].lookups) <= Len(body[r].items)
    /\ \A j, k \in 1..Len(calls[r].lookups) :
         j < k => \E m, n \in 1..Len(body[r].items) :
                    /\ m < n
                    /\ body[r].items[m].productId = calls[r].lookups[j].productId
                    /\ body[r].items[n].productId = calls[r].lookups[k].productId
    /\ pc[r] = "fetch" => Len(calls[r].lookups) < loc[r].idx
    /\ calls[r].gateway <= 1 /\ calls[r].creates <= 1
    /\ calls[r].lists <= 1 /\ calls[r].updates <= 1
    /\ pc[r] = "gateway" => calls[r].gateway = 0
    /\ pc[r] = "store" => calls[r].creates = 0
    /\ pc[r] = "list" => calls[r].lists = 0
    /\ pc[r] = "update" => calls[r].updates = 0

\* C26 witness: a createOrder whose createDocument call threw has been
\* answered after one lookup, one gateway call and that one store call
C26_Witness ==
  \E r \in DOMAIN pc :
    /\ pc[r] = "done" /\ ~resp[r].ok
    /\ Len(calls[r].lookups) = 1
    /\ calls[r].gateway = 1 /\ calls[r].creates = 1
    /\ calls[r].threw = 1

\* C27: a successful createOrder response carries orderId, razorpayOrderId,
\* amount and razorpayKeyId, and a successful verifyPayment response carries
\* the id of the order that was marked paid and the request's razorpayPaymentId.
C27_DocumentedResponseFields ==
  \A r \in DOMAIN pc :
    pc[r] = "done" /\ resp[r].ok
    => /\ Route(variant, body[r]) = "create"
            => /\ resp[r].orderId # NoId
               /\ resp[r].razorpayOrderId # NoId
               /\ resp[r].amount # Null
               /\ resp[r].razorpayKeyId
       /\ Route(variant, body[r]) = "verify"
            => /\ calls[r].updates = 1
               /\ resp[r].orderId = calls[r].post.id
               /\ calls[r].post.paymentStatus = "paid"
               /\ resp[r].razorpayPaymentId = body[r].razorpayPaymentId

\* C28: within a verifyPayment execution updateDocument is called only after
\* the signature check has passed and the target order id is known, it is
\* called once, and it sets paymentStatus, razorpayPaymentId and
\* razorpaySignature together: no stored order is paid while its
\* razorpayPaymentId or razorpaySignature is still null.
C28_PaidAtomically ==
  /\ \A i \in 1..Len(orders) :
       orders[i].paymentStatus = "paid"
       => /\ orders[i].razorpayPaymentId # NoId
          /\ orders[i].razorpaySignature # NoSig
  /\ \A r \in DOMAIN pc :
       /\ pc[r] = "update"
            => /\ SignatureMatches(body[r])
               /\ loc[r].docId # NoId
               /\ calls[r].updates = 0
       /\ calls[r].updates <= 1
       /\ calls[r].updates = 1
            => /\ SignatureMatches(body[r])
               /\ resp[r].ok
                    => /\ calls[r].post.razorpayPaymentId = body[r].razorpayPaymentId
                       /\ calls[r].post.razorpaySignature = body[r].razorpaySignature
                       /\ calls[r].post.paymentStatus = "paid"

\* an order resolved through listDocuments has been marked paid
C28_Witness ==
  /\ pc[1] = "done" /\ resp[1].ok
  /\ body[1].orderId = NoId
  /\ calls[1].lists = 1 /\ calls[1].updates = 1
  /\ \E i \in 1..Len(orders) :
       /\ orders[i].paymentStatus = "paid"
       /\ orders[i].razorpayPaymentId = body[1].razorpayPaymentId
       /\ orders[i].razorpaySignature = body[1].razorpaySignature

\* C29: an order is changed only by a verification whose signed
\* razorpayOrderId is that order's own stored razorpayOrderId: a correct
\* signature for gateway order A sent with the orderId of another order B
\* does not change order B.
C29_PaidOnlyByOwnGatewayOrder ==
  [][\A i \in 1..Len(orders) :
       orders'[i] # orders[i]
       => \E r \in DOMAIN pc :
            /\ pc[r] = "update"
            /\ loc[r].docId = orders[i].id
            /\ body[r].razorpayOrderId = orders[i].razorpayOrderId]_vars

\* C30: verifyPayment's update changes only paymentStatus, paymentReference,
\* razorpayPaymentId and razorpaySignature of the target order: that order's
\* id, userId, items, subtotal, totalAmount, currency, shippingAddress and
\* razorpayOrderId stay as they were, and so does every other stored order.
C30_UpdateFrame ==
  [][/\ Len(orders') >= Len(orders)
     /\ \A i \in 1..Len(orders) :
          orders'[i] # orders[i]
          => /\ \E r \in DOMAIN pc : pc[r] = "update" /\ loc[r].docId = orders[i].id
             /\ orders'[i].id = orders[i].id
             /\ orders'[i].userId = orders[i].userId
             /\ orders'[i].items = orders[i].items
             /\ orders'[i].subtotal = orders[i].subtotal
             /\ orders'[i].totalAmount = orders[i].totalAmount
             /\ orders'[i].currency = orders[i].currency
             /\ orders'[i].shippingAddress = orders[i].shippingAddress
             /\ orders'[i].razorpayOrderId = orders[i].razorpayOrderId]_vars

\* one of two stored orders has been marked paid, by a request that named
\* the other order's razorpayOrderId
C30_Witness ==
  /\ pc[1] = "done" /\ resp[1].ok /\ calls[1].updates = 1
  /\ Len(orders) = 2
  /\ calls[1].post # calls[1].pre
  /\ \E i, j \in 1..Len(orders) :
       /\ orders[i] = calls[1].post
       /\ orders[j].paymentStatus = "created"
       /\ body[1].razorpayOrderId = orders[j].razorpayOrderId

\* C31: a successful createOrder adds exactly one order record under a fresh
\* id and leaves the existing records unchanged; a failed createOrder and any
\* verifyPayment add none; no record is ever deleted.
C31_OneRecordPerSuccessfulCreate ==
  [][/\ Len(orders') \in {Len(orders), Len(orders) + 1}
     /\ \A i \in 1..Len(orders) : orders'[i].id = orders[i].id
     /\ Len(orders') = Len(orders) + 1
          => /\ orders'[Len(orders')].id \notin OrderIds
             /\ \A i \in 1..Len(orders) : orders'[i] = orders[i]
             /\ \E r \in DOMAIN pc :
                  /\ Route(variant, body[r]) = "create"
                  /\ pc[r] # "done" /\ pc'[r] = "done"
                  /\ resp'[r].ok
                  /\ resp'[r].orderId = orders'[Len(orders')].id
     /\ \A r \in DOMAIN pc :
          /\ pc[r] \notin {"idle", "done"} /\ pc'[r] = "done"
          /\ Route(variant, body[r]) = "create"
          /\ resp'[r].ok
          => Len(orders') = Len(orders) + 1]_vars

\* C32: in every reachable state an order is paid if and only if its
\* razorpayPaymentId and razorpaySignature are both non-null, and a paid
\* order's razorpaySignature is the expected signature of the razorpayOrderId
\* the verifying request sent and the stored razorpayPaymentId.
C32_PaidIffSigned ==
  /\ \A i \in 1..Len(orders) :
       /\ orders[i].paymentStatus = "paid"
            <=> (orders[i].razorpayPaymentId # NoId /\ orders[i].razorpaySignature # NoSig)
       /\ orders[i].paymentStatus = "paid"
            => \E g \in GatewayIds :
                 orders[i].razorpaySignature
                   = generateSignature(g, orders[i].razorpayPaymentId, Secret)
  /\ \A r \in DOMAIN pc :
       pc[r] = "done" /\ resp[r].ok /\ calls[r].updates = 1
       => calls[r].post.razorpaySignature
            = generateSignature(body[r].razorpayOrderId,
                                calls[r].post.razorpayPaymentId, Secret)

\* an order has been paid a second time, with another payment
C32_Witness ==
  /\ pc[1] = "done" /\ resp[1].ok /\ calls[1].updates = 1
  /\ calls[1].pre.paymentStatus = "paid"
  /\ calls[1].pre.razorpayPaymentId # body[1].razorpayPaymentId
  /\ \E i \in 1..Len(orders) :
       /\ orders[i] = calls[1].post
       /\ orders[i].razorpaySignature = body[1].razorpaySignature

\* C33: no two stored orders have the same razorpayOrderId, so the lookup by
\* razorpayOrderId that verification uses, which takes the first document,
\* has at most one document to choose from.
C33_OneRecordPerGatewayOrder ==
  /\ \A i, j \in 1..Len(orders) :
       i # j => orders[i].razorpayOrderId # orders[j].razorpayOrderId
  /\ \A r \in DOMAIN pc :
       pc[r] = "list" => Len(ListByGatewayId(body[r].razorpayOrderId)) <= 1

\* C34: every line item of every stored order has a quantity that is a
\* positive integer and a lineTotal that is not negative, whatever
\* quantities the createOrder requests carried.
C34_StoredLinesWellFormed ==
  \A i \in 1..Len(orders) :
    \A k \in 1..Len(orders[i].items) :
      /\ orders[i].items[k].quantity.t = "num"
      /\ orders[i].items[k].quantity.v > 0
      /\ orders[i].items[k].lineTotal # Null
           => /\ orders[i].items[k].lineTotal.t = "num"
              /\ orders[i].items[k].lineTotal.v >= 0

\* C35: the amount sent to the gateway is monotonic in the computed total:
\* of two positive totals the smaller one is never charged more, the totals
\* on either side of 1,000,000 included.
C35_AmountMonotonic ==
  \A r, q \in DOMAIN pc :
    (/\ pc[r] = "amount" /\ pc[q] = "amount"
     /\ loc[r].total.v <= loc[q].total.v)
    => /\ loc[r].amount.t = "num" /\ loc[q].amount.t = "num"
       /\ loc[r].amount.v <= loc[q].amount.v

\* C36: a request whose action is verifyPayment, in any letter case, runs
\* only verification: no catalog lookup, no gateway call, no order record
\* created; a request with no action that carries razorpayPaymentId is
\* handled as a verification too; every other request runs only creation
\* and never lists or updates order records.
C36_RoutingKeepsActionsApart ==
  \A r \in DOMAIN pc :
    pc[r] # "idle"
    => IF \/ ToLower(body[r].action) = "verifypayment"
          \/ body[r].action = "" /\ body[r].razorpayPaymentId # NoId
       THEN /\ pc[r] \notin {"fetch", "gateway", "store"}
            /\ calls[r].lookups = <<>>
            /\ calls[r].gateway = 0
            /\ calls[r].creates = 0
       ELSE /\ pc[r] \notin {"list", "update"}
            /\ calls[r].lists = 0
            /\ calls[r].updates = 0

\* C37: when a response object is supplied the handler sends one response per
\* request: status 500 if required configuration is missing, otherwise 200
\* if the action result has ok true and 400 if it has ok false.
C37_StatusFollowsResult ==
  \A r \in DOMAIN pc :
    pc[r] = "done"
    => \A k \in ResKinds :
         SentStatus(variant, k, checkEnv(variant, env) = {}, resp[r])
           = IF checkEnv(variant, env) # {} THEN 500
             ELSE IF resp[r].ok THEN 200 ELSE 400

\* C38: provided every catalog, gateway and store call eventually returns or
\* fails, every createOrder and every verifyPayment request that has begun
\* eventually produces a response, whatever the length of its items list.
C38_RequestsTerminate ==
  \A r \in Slots : (pc[r] \notin {"idle", "done"}) ~> (pc[r] = "done")

\* a createOrder request with a full items list has looked every item up and
\* has been answered
C38_Witness ==
  /\ pc[1] = "done"
  /\ Route(variant, body[1]) = "create"
  /\ Len(body[1].items) = MaxItems
  /\ Len(calls[1].lookups) = MaxItems
  /\ calls[1].gateway = 1
====
